---- MODULE Spec2Model ----
(***************************************************************************)
(* Model of the minimization driver Min (src/src/min.cpp): its lifecycle   *)
(* init / setup / setup_minimal / run / cleanup, the evaluation pipeline   *)
(* energy_force, the extra-DOF registry (request), the energy/virial       *)
(* scheduler ev_set and the distributed norms fnorm_sqr / fnorm_inf.       *)
(*                                                                         *)
(* Doubles are modelled by integers: every value the model draws is a      *)
(* small integer, on which double arithmetic is exact.                     *)
(***************************************************************************)
EXTENDS Integers, Sequences, FiniteSets, TLC

\* ------------------------------------------------------------------ bounds

\* number of atoms of the system whose norms are computed
NAtoms == 2
\* largest number of partitions (MPI processes) the atoms are split over
MaxProcs == 3
\* largest timestep the minimizer's iterations reach
MaxStep == 1
\* largest number of per-atom extra-DOF slots requested between two inits
MaxExtra == 2
\* largest delay of the neighbor cadence in force before a minimization
MaxCadence == 1
\* largest number of minimizations run one after the other
MaxRuns == 2

VARIABLES
  phase,      \* position of the caller in the lifecycle of one minimization
  env,        \* the collaborators' settings the core only reads
  min,        \* the fields of the Min object
  neighbor,   \* neighbor->every, delay, dist_check, ncalls
  update,     \* update->ntimestep, nsteps, eflag_global, ...
  modify,     \* modify->fix (ids) and modify->compute (the diagnostic consumers)
  output,     \* output->next_dump, next_dump_any, next_restart, next_thermo
  atom,       \* atom->f, torque, erforce of the local and ghost atoms
  trace,      \* the calls made by the operation that ran last, in order
  hist,       \* history kept for the properties only (never read by an action)
  nrm         \* the partitioned force state the norm calculator reads

vars == <<phase, env, min, neighbor, update, modify, output, atom, trace, hist, nrm>>

\* ------------------------------------------------------------ norm calculator

Abs(x) == IF x < 0 THEN -x ELSE x

\* #define MAX(A,B) ((A) > (B)) ? (A) : (B)
MAX(A, B) == IF A > B THEN A ELSE B

\* the loop  for (i = 0; i < n; i++) acc += v[i]*v[i];  over the first n entries
RECURSIVE SumSqr(_, _)
SumSqr(v, n) == IF n = 0 THEN 0 ELSE SumSqr(v, n - 1) + v[n] * v[n]

\* the loop  for (i = 0; i < n; i++) acc = MAX(fabs(v[i]),acc);  started at acc
RECURSIVE MaxAbs(_, _, _)
MaxAbs(v, n, acc) ==
  IF n = 0 THEN acc ELSE MAX(Abs(v[n]), MaxAbs(v, n - 1, acc))

\* one process's view: fvec (3*nlocal force components), the per-atom extra
\* DOF buffers fextra_atom[m] with their lengths extra_nlen[m]
RECURSIVE ExtraSqr(_, _, _)
ExtraSqr(fextra_atom, extra_nlen, m) ==
  IF m = 0 THEN 0
  ELSE ExtraSqr(fextra_atom, extra_nlen, m - 1)
       + SumSqr(fextra_atom[m], extra_nlen[m])

RECURSIVE ExtraInf(_, _, _, _)
ExtraInf(fextra_atom, extra_nlen, m, acc) ==
  IF m = 0 THEN acc
  ELSE MaxAbs(fextra_atom[m], extra_nlen[m],
              ExtraInf(fextra_atom, extra_nlen, m - 1, acc))

\* local_norm2_sqr of one process (lines 704-713)
local_norm2_sqr(p) ==
  SumSqr(p.fvec, p.nvec)
  + (IF p.nextra_atom # 0
       THEN ExtraSqr(p.fextra_atom, p.extra_nlen, p.nextra_atom) ELSE 0)

\* local_norm_inf of one process (lines 734-744)
local_norm_inf(p) ==
  LET a == MaxAbs(p.fvec, p.nvec, 0)
  IN IF p.nextra_atom # 0
       THEN ExtraInf(p.fextra_atom, p.extra_nlen, p.nextra_atom, a) ELSE a

\* MPI_Allreduce(..., MPI_SUM, world) over the processes 1..n of procs
RECURSIVE Allreduce_SUM(_, _)
Allreduce_SUM(vals, n) ==
  IF n = 0 THEN 0 ELSE Allreduce_SUM(vals, n - 1) + vals[n]

\* MPI_Allreduce(..., MPI_MAX, world)
RECURSIVE Allreduce_MAX(_, _)
Allreduce_MAX(vals, n) ==
  IF n = 1 THEN vals[1] ELSE MAX(vals[n], Allreduce_MAX(vals, n - 1))

\* a plausible bug: the global extra DOF added before the reduction, so that it
\* is counted once per partition
fnorm_sqr_GlobalBeforeReduce(procs, nextra_global, fextra) ==
  Allreduce_SUM([q \in 1..Len(procs) |->
                   local_norm2_sqr(procs[q])
                   + (IF nextra_global # 0
                        THEN SumSqr(fextra, nextra_global) ELSE 0)],
                Len(procs))

\* Min::fnorm_sqr as every process of world computes it
fnorm_sqr(procs, nextra_global, fextra) ==
  LET norm2_sqr == Allreduce_SUM([q \in 1..Len(procs) |->
                                    local_norm2_sqr(procs[q])], Len(procs))
  IN IF nextra_global # 0
       THEN norm2_sqr + SumSqr(fextra, nextra_global)
       ELSE norm2_sqr

\* a plausible bug: the local maximum returned without the max-reduction
fnorm_inf_NoReduce(procs, nextra_global, fextra) ==
  LET norm_inf == local_norm_inf(procs[1])
  IN IF nextra_global # 0
       THEN MaxAbs(fextra, nextra_global, norm_inf)
       ELSE norm_inf

\* Min::fnorm_inf as every process of world computes it
fnorm_inf(procs, nextra_global, fextra) ==
  LET norm_inf == Allreduce_MAX([q \in 1..Len(procs) |->
                                   local_norm_inf(procs[q])], Len(procs))
  IN IF nextra_global # 0
       THEN MaxAbs(fextra, nextra_global, norm_inf)
       ELSE norm_inf

\* ------------------------------------------------------------ call records

\* one call made by an operation: the callee and up to two integer arguments
Ev(op, a, b) == [op |-> op, a |-> a, b |-> b]

Call(w, op) == [w EXCEPT !.trace = Append(@, Ev(op, 0, 0))]

Call1(w, op, a) == [w EXCEPT !.trace = Append(@, Ev(op, a, 0))]

Call2(w, op, a, b) == [w EXCEPT !.trace = Append(@, Ev(op, a, b))]

CallIf(c, w, op) == IF c THEN Call(w, op) ELSE w

\* the state an operation of Min reads and writes, threaded through its steps;
\* err holds the message once error->all() has ended the run, ret the value
\* the operation returns
World ==
  [min |-> min, neighbor |-> neighbor, update |-> update, modify |-> modify,
   output |-> output, atom |-> atom, trace |-> <<>>, err |-> "",
   ret |-> 0]

\* error->all(str): the run ends here
error_all(w, str) == [w EXCEPT !.err = str]

\* ------------------------------------------------- diagnostic consumers

\* Compute::matchstep(ntimestep): does the consumer's schedule hold this step
matchstep(c, ntimestep) == ntimestep \in c.tlist

\* the side effect of Compute::matchstep: schedule entries before ntimestep are
\* dropped; the entry of ntimestep itself stays, so a second call on the same
\* step answers as the first
matchstep_after(c, ntimestep) ==
  [c EXCEPT !.tlist = {t \in @ : t >= ntimestep}]

\* Compute::addstep(ntimestep) on every compute (Modify::addstep_compute_all)
addstep_compute_all(compute, ntimestep) ==
  [i \in DOMAIN compute |->
     [compute[i] EXCEPT !.tlist = @ \cup {ntimestep}]]

\* Modify::find_compute(id): index of the compute (from 1), or -1
find_compute(compute, id) ==
  IF \E i \in DOMAIN compute : compute[i].id = id
    THEN CHOOSE i \in DOMAIN compute :
           /\ compute[i].id = id
           /\ \A j \in DOMAIN compute : compute[j].id = id => i <= j
    ELSE -1

\* the second loop of ev_setup: the computes 1..n with the flag set, in order
RECURSIVE ev_list(_, _, _)
ev_list(compute, flag, n) ==
  IF n = 0 THEN <<>>
  ELSE IF compute[n][flag]
         THEN Append(ev_list(compute, flag, n - 1), n)
         ELSE ev_list(compute, flag, n - 1)

\* Min::ev_setup
ev_setup(w) ==
  [w EXCEPT
     !.min.elist_global =
        ev_list(w.modify.compute, "peflag", Len(w.modify.compute)),
     !.min.elist_atom =
        ev_list(w.modify.compute, "peatomflag", Len(w.modify.compute)),
     !.min.vlist_global =
        ev_list(w.modify.compute, "pressflag", Len(w.modify.compute)),
     !.min.vlist_atom =
        ev_list(w.modify.compute, "pressatomflag", Len(w.modify.compute))]

\* a plausible bug: the loop left at the first consumer that matches, so that
\* the schedules of the consumers behind it are not served
RECURSIVE match_loop_Break(_, _, _, _)
match_loop_Break(compute, list, i, ntimestep) ==
  IF i > Len(list) THEN [compute |-> compute, flag |-> 0, asked |-> 0]
  ELSE IF matchstep(compute[list[i]], ntimestep)
    THEN [compute |->
            [compute EXCEPT ![list[i]] = matchstep_after(@, ntimestep)],
          flag |-> 1, asked |-> 1]
    ELSE LET rest == match_loop_Break(
                       [compute EXCEPT
                          ![list[i]] = matchstep_after(@, ntimestep)],
                       list, i + 1, ntimestep)
         IN [rest EXCEPT !.asked = @ + 1]

\* one loop of ev_set:  for (i = 0; i < n; i++) if (list[i]->matchstep(t)) flag = 1;
\* started at entry i; every consumer of the list is asked;
\* asked counts the calls of matchstep
RECURSIVE match_loop(_, _, _, _)
match_loop(compute, list, i, ntimestep) ==
  IF i > Len(list) THEN [compute |-> compute, flag |-> 0, asked |-> 0]
  ELSE LET hit == matchstep(compute[list[i]], ntimestep)
           rest == match_loop(
                     [compute EXCEPT ![list[i]] = matchstep_after(@, ntimestep)],
                     list, i + 1, ntimestep)
       IN [compute |-> rest.compute,
           flag |-> IF hit THEN 1 ELSE rest.flag,
           asked |-> rest.asked + 1]

\* a plausible bug: per-atom energy demanded on every step
eflag_atom_Always(flag) == 2

\* line 672:  if (flag) eflag_atom = 2;
eflag_atom_of(flag) == IF flag # 0 THEN 2 ELSE 0

\* a plausible bug: the pairwise-sum method hard-wired
vflag_global_One(flag, virial_style) == IF flag # 0 THEN 1 ELSE 0

\* line 682:  if (flag) vflag_global = virial_style;
vflag_global_of(flag, virial_style) == IF flag # 0 THEN virial_style ELSE 0

\* line 688:  if (flag) vflag_atom = 4;
vflag_atom_of(flag) == IF flag # 0 THEN 4 ELSE 0

\* lines 674-676 and 690-692: the markers of update and the two modes
ev_store(w, compute, eflag_global, eflag_atom, vflag_global, vflag_atom) ==
  [w EXCEPT
     !.modify.compute = compute,
     !.update.eflag_global =
        IF eflag_global # 0 THEN w.update.ntimestep ELSE @,
     !.update.eflag_atom =
        IF eflag_atom # 0 THEN w.update.ntimestep ELSE @,
     !.update.vflag_global =
        IF vflag_global # 0 THEN w.update.ntimestep ELSE @,
     !.update.vflag_atom =
        IF vflag_atom # 0 THEN w.update.ntimestep ELSE @,
     !.min.eflag = eflag_global + eflag_atom,
     !.min.vflag = vflag_global + vflag_atom]

\* Min::ev_set; the call is recorded with the step and the number of
\* consumers it asked
ev_set(w, ntimestep) ==
  LET eg == match_loop(w.modify.compute, w.min.elist_global, 1, ntimestep)
      ea == match_loop(eg.compute, w.min.elist_atom, 1, ntimestep)
      vg == match_loop(ea.compute, w.min.vlist_global, 1, ntimestep)
      va == match_loop(vg.compute, w.min.vlist_atom, 1, ntimestep)
  IN ev_store(Call2(w, "ev_set", ntimestep,
                    eg.asked + ea.asked + vg.asked + va.asked),
              va.compute, 1,
              eflag_atom_of(ea.flag),
              vflag_global_of(vg.flag, w.min.virial_style),
              vflag_atom_of(va.flag))

\* ------------------------------------------------------------ force buffers

Zero3 == <<0, 0, 0>>

\* nall of force_clear: ghosts are counted only if a newton flag is set
nall_of(newton) == IF newton THEN env.nlocal + env.nghost ELSE env.nlocal

\* the return of force_clear, recorded with the buffers as it leaves them
cleared(w) ==
  Call1(w, "force_clear",
        [f |-> w.atom.f, torque |-> w.atom.torque, erforce |-> w.atom.erforce])

\* a plausible bug: the owned atoms alone cleared, whatever the Newton flag
clear_arrays_OwnedOnly(w) ==
  [w EXCEPT
     !.atom.f =
        [i \in DOMAIN @ |->
           IF i <= env.nlocal * env.nthreads THEN Zero3 ELSE @[i]],
     !.atom.torque =
        IF w.min.torqueflag = 1
          THEN [i \in DOMAIN @ |-> IF i <= env.nlocal THEN Zero3 ELSE @[i]]
          ELSE @,
     !.atom.erforce =
        IF w.min.erforceflag = 1
          THEN [i \in DOMAIN @ |-> IF i <= env.nlocal THEN 0 ELSE @[i]]
          ELSE @]

\* lines 527-551: the first nall entries (ntot for the forces) are zeroed
clear_arrays(w) ==
  [w EXCEPT
     !.atom.f =
        [i \in DOMAIN @ |->
           IF i <= nall_of(env.newton) * env.nthreads THEN Zero3 ELSE @[i]],
     !.atom.torque =
        IF w.min.torqueflag = 1
          THEN [i \in DOMAIN @ |->
                  IF i <= nall_of(env.newton) THEN Zero3 ELSE @[i]]
          ELSE @,
     !.atom.erforce =
        IF w.min.erforceflag = 1
          THEN [i \in DOMAIN @ |-> IF i <= nall_of(env.newton) THEN 0 ELSE @[i]]
          ELSE @]

\* a plausible bug: the buffers left as they are, so that forces accumulate
force_clear_Skip(w) == cleared(w)

\* Min::force_clear
force_clear(w) == cleared(clear_arrays(w))

\* what one force-field contributor's compute(eflag,vflag) leaves in atom->f:
\* it adds its force to every owned atom and, with Newton's third law on, to
\* the ghost atoms it touches
contribute(w, op) ==
  [Call2(w, op, w.min.eflag, w.min.vflag) EXCEPT
     !.atom.f = [i \in DOMAIN @ |->
                   IF i <= nall_of(env.newton)
                     THEN <<@[i][1] + 1, @[i][2], @[i][3] - 1>>
                     ELSE @[i]]]

\* the sum of the forces f[g] of the ghost atoms g in gs, added to v
RECURSIVE ghost_sum(_, _, _)
ghost_sum(f, v, gs) ==
  IF gs = {} THEN v
  ELSE LET g == CHOOSE x \in gs : \A y \in gs : x <= y
       IN ghost_sum(f, <<v[1] + f[g][1], v[2] + f[g][2], v[3] + f[g][3]>>,
                    gs \ {g})

\* the ghost atoms that are replicas of the owned atom i
ghosts_of(i) ==
  {g \in (env.nlocal + 1)..(env.nlocal + env.nghost) :
     ((g - 1) % env.nlocal) + 1 = i}

\* comm->reverse_comm(): each ghost atom's force is added to the owned atom it
\* is a replica of
reverse_comm(w) ==
  [Call(w, "comm.reverse_comm") EXCEPT
     !.atom.f = [i \in DOMAIN @ |->
                   IF i <= env.nlocal
                     THEN ghost_sum(w.atom.f, w.atom.f[i], ghosts_of(i))
                     ELSE @[i]]]

\* ------------------------------------------------------- extra-DOF registry

\* a plausible bug: the new record written over slot 0 instead of the new slot
request_Overwrite(w, pair, peratom, maxvalue) ==
  [Call2(w, "request", peratom, maxvalue) EXCEPT
     !.min.xextra_atom = Append(@, <<>>),
     !.min.fextra_atom = Append(@, <<>>),
     !.min.extra_nlen = Append(@, 0),
     !.min.requestor = [Append(@, pair) EXCEPT ![1] = pair],
     !.min.extra_peratom = [Append(@, peratom) EXCEPT ![1] = peratom],
     !.min.extra_max = [Append(@, maxvalue) EXCEPT ![1] = maxvalue],
     !.min.nextra_atom = @ + 1,
     !.ret = w.min.nextra_atom]

\* Min::request(pair, peratom, maxvalue): the parallel buffers grow by one
\* slot; ret is the handle returned (slot ret+1 of the model's sequences)
request(w, pair, peratom, maxvalue) ==
  [Call2(w, "request", peratom, maxvalue) EXCEPT
     !.min.xextra_atom = Append(@, <<>>),
     !.min.fextra_atom = Append(@, <<>>),
     !.min.extra_nlen = Append(@, 0),
     !.min.requestor = Append(@, pair),
     !.min.extra_peratom = Append(@, peratom),
     !.min.extra_max = Append(@, maxvalue),
     !.min.nextra_atom = @ + 1,
     !.ret = w.min.nextra_atom]

\* requestor[m]->min_xf_get(m): the owning pair style refreshes the value and
\* force buffers of slot m (handle m-1)
min_xf_get(w, m) ==
  [Call2(w, "min_xf_get", m - 1, w.min.requestor[m]) EXCEPT
     !.min.fextra_atom[m] =
        [i \in 1..(w.min.extra_peratom[m] * env.nlocal) |-> env.xforce]]

\* for (int m = 0; m < nextra_atom; m++) requestor[m]->min_xf_get(m);
RECURSIVE min_xf_get_loop(_, _)
min_xf_get_loop(w, m) ==
  IF m > w.min.nextra_atom THEN w
  ELSE min_xf_get_loop(min_xf_get(w, m), m + 1)

\* reset_vectors() of the search style: nvec and the aliases into atom->f are
\* refreshed; a line-search style also sizes every per-atom extra slot
reset_vectors(w) ==
  [Call(w, "reset_vectors") EXCEPT
     !.min.nvec = 3 * env.nlocal,
     !.min.extra_nlen =
        IF env.searchflag = 1
          THEN [m \in DOMAIN @ |-> w.min.extra_peratom[m] * env.nlocal]
          ELSE @]

\* the view of this process that the norm calculator reads: fvec aliases
\* atom->f[0], three components per owned atom
my_proc(w) ==
  [nvec |-> w.min.nvec,
   fvec |-> [i \in 1..(3 * env.nlocal) |->
               w.atom.f[((i - 1) \div 3) + 1][((i - 1) % 3) + 1]],
   nextra_atom |-> w.min.nextra_atom,
   fextra_atom |-> w.min.fextra_atom,
   extra_nlen |-> w.min.extra_nlen]

\* ------------------------------------------------------------ Min::init

\* Modify::add_fix(3, {"MINIMIZE","all","MINIMIZE"})
add_fix(fix, id) == Append(fix, id)

\* Modify::delete_fix(id)
delete_fix(fix, id) == SelectSeq(fix, LAMBDA x : x # id)

\* lines 100-106: the fix that stores the atom-based quantities
init_fix(w) ==
  [Call1(w, "modify.add_fix", 3) EXCEPT
     !.modify.fix = add_fix(@, "MINIMIZE"),
     !.min.fix_minimize = Len(w.modify.fix) + 1]

\* a plausible bug: the per-atom slots of the previous minimization are kept
init_registry_KeepSlots(w) ==
  [w EXCEPT !.min.nextra_global = 0, !.min.fextra = <<>>]

\* lines 112-126: the extra global and per-atom DOFs are cleared
init_registry(w) ==
  [w EXCEPT
     !.min.nextra_global = 0,
     !.min.fextra = <<>>,
     !.min.nextra_atom = 0,
     !.min.xextra_atom = <<>>,
     !.min.fextra_atom = <<>>,
     !.min.extra_peratom = <<>>,
     !.min.extra_nlen = <<>>,
     !.min.extra_max = <<>>,
     !.min.requestor = <<>>]

\* lines 132-133
init_virial(w) ==
  [w EXCEPT !.min.virial_style = IF env.newton_pair THEN 2 ELSE 1]

\* lines 142-149
init_flags(w) ==
  [w EXCEPT
     !.min.torqueflag = IF env.torque_flag THEN 1 ELSE 0,
     !.min.erforceflag = IF env.erforce_flag THEN 1 ELSE 0,
     !.min.triclinic = env.triclinic]

\* lines 153-164: the reneighboring criteria are saved and reset (the warning
\* of lines 157-160 changes no state)
init_neighbor(w) ==
  [w EXCEPT
     !.min.neigh_every = w.neighbor.every,
     !.min.neigh_delay = w.neighbor.delay,
     !.min.neigh_dist_check = w.neighbor.dist_check,
     !.neighbor.every = 1,
     !.neighbor.delay = 0,
     !.neighbor.dist_check = 1]

\* lines 166-170
init_counters(w) ==
  [Call(w, "init_style") EXCEPT !.min.niter = 0, !.min.neval = 0]

\* Min::init
init(w) ==
  init_counters(init_neighbor(init_flags(ev_setup(init_virial(
    init_registry(init_fix(w)))))))

\* ------------------------------------------------- the evaluation pipeline

x2lamda(w) == CallIf(w.min.triclinic, w, "domain.x2lamda")

lamda2x(w) == CallIf(w.min.triclinic, w, "domain.lamda2x")

setup_bins(w) == CallIf(env.neighbor_style, w, "neighbor.setup_bins")

\* domain->reset_box(); comm->setup(); if (neighbor->style) setup_bins();
reset_box(w) ==
  setup_bins(Call(Call(w, "domain.reset_box"), "comm.setup"))

\* atom->sort(): the atoms are reordered and the next sort is scheduled
atom_sort(w) ==
  [Call(w, "atom.sort") EXCEPT
     !.atom.nextsort =
        (w.update.ntimestep \div env.sortfreq) * env.sortfreq + env.sortfreq]

\* one contributor, if the force field has it
contributor(w, present, op) == IF present THEN contribute(w, op) ELSE w

\* lines 245-250, 316-321, 464-470: the bonded terms of a molecular system
bonded(w) ==
  IF env.molecular
    THEN contributor(contributor(contributor(contributor(w,
           env.bond, "bond.compute"), env.angle, "angle.compute"),
           env.dihedral, "dihedral.compute"), env.improper, "improper.compute")
    ELSE w

\* lines 252-255, 323-326 (with kspace->setup()) and 472-475 (without)
kspace(w, kspace_setup) ==
  IF env.kspace
    THEN contribute(CallIf(kspace_setup, w, "kspace.setup"), "kspace.compute")
    ELSE w

\* a plausible bug: a process that owns no atoms skips the reverse reduction
newton_reverse_IfAtoms(w) ==
  IF env.newton /\ w.min.nvec > 0 THEN reverse_comm(w) ELSE w

\* lines 257, 328, 477-480
newton_reverse(w) == IF env.newton THEN reverse_comm(w) ELSE w

\* lines 261-263, 332-334, 484-486
harvest(w) == IF w.min.nextra_atom # 0 THEN min_xf_get_loop(w, 1) ELSE w

\* a plausible bug: the ghost forces reduced before the long-range
\* contributor has added its own
force_field_EarlyReverse(w, kspace_setup) ==
  harvest(kspace(newton_reverse(bonded(
    contributor(w, env.pair, "pair.compute"))), kspace_setup))

\* the contributors, the reverse reduction and the harvest of the per-atom
\* extra DOFs
force_field(w, kspace_setup) ==
  harvest(newton_reverse(kspace(bonded(
    contributor(w, env.pair, "pair.compute")), kspace_setup)))

\* ev_set(update->ntimestep); force_clear();
ev_clear(w) == force_clear(ev_set(w, w.update.ntimestep))

\* pe_compute->compute_scalar(): the potential energy of the configuration
compute_scalar(w) == env.pe - w.atom.x

\* modify->min_energy(fextra): the fixes' energy of the global extra DOFs; it
\* also stores the forces on them in fextra
min_energy(w) ==
  [Call(w, "modify.min_energy") EXCEPT
     !.min.fextra = [i \in DOMAIN @ |-> env.fglobal],
     !.ret = [@ EXCEPT !.num = @ + env.eglobal * w.ret.den]]

\* energy = pe_compute->compute_scalar();
pe_scalar(w) ==
  [Call1(w, "pe_compute.compute_scalar", w.min.pe_compute) EXCEPT
     !.ret = [num |-> compute_scalar(w), den |-> 1]]

\* if (nextra_global) energy += modify->min_energy(fextra);
add_global(w) == IF w.min.nextra_global # 0 THEN min_energy(w) ELSE w

\* if (output->thermo->normflag) energy /= atom->natoms;
normalize(w) ==
  IF env.normflag THEN [w EXCEPT !.ret.den = @ * env.natoms] ELSE w

\* a plausible bug: the potential energy normalized before the energy of the
\* global extra DOFs is added
energy_of_NormalizeFirst(w) == add_global(normalize(pe_scalar(w)))

\* lines 270-272, 340-342 and 499-501: the energy, left in ret as the
\* quotient num/den
energy_of(w) == normalize(add_global(pe_scalar(w)))

\* ecurrent = <energy>; einitial = ecurrent;
store_initial(w) ==
  [w EXCEPT !.min.ecurrent = w.ret, !.min.einitial = w.ret]

\* fnorm2_init = sqrt(fnorm_sqr());
store_fnorm2_init(w) ==
  [Call(w, "fnorm_sqr") EXCEPT
     !.min.fnorm2_init =
        [sqrt |-> fnorm_sqr(<<my_proc(w)>>, w.min.nextra_global,
                            w.min.fextra)]]

\* fnorminf_init = fnorm_inf();
store_fnorminf_init(w) ==
  [Call(w, "fnorm_inf") EXCEPT
     !.min.fnorminf_init =
        fnorm_inf(<<my_proc(w)>>, w.min.nextra_global, w.min.fextra)]

\* lines 270-276 and 340-346: the snapshots for Finish
snapshot_initial(w) ==
  store_fnorminf_init(store_fnorm2_init(store_initial(energy_of(w))))

\* ------------------------------------------------------------ Min::setup

\* lines 184-185
setup_global(w) ==
  [Call(w, "modify.min_dof") EXCEPT
     !.min.nextra_global = env.min_dof,
     !.min.fextra =
        IF env.min_dof # 0 THEN [i \in 1..env.min_dof |-> 0] ELSE @]

\* the sum  for (m) ndofme += extra_peratom[m]*atom->nlocal  of setup
RECURSIVE ndof_extra(_, _)
ndof_extra(w, m) ==
  IF m = 0 THEN 0
  ELSE ndof_extra(w, m - 1) + w.min.extra_peratom[m] * env.nlocal

\* lines 191-207: pe_compute, the style's setup and the total DOF count
setup_dof(w, id) ==
  [Call(Call(w, "setup_style"), "MPI_Allreduce") EXCEPT
     !.min.pe_compute = id,
     !.min.ndoftotal =
        3 * env.nlocal + ndof_extra(w, w.min.nextra_atom)
        + w.min.nextra_global]

sort_if_due(w, due) == IF due THEN atom_sort(w) ELSE w

zero_ncalls(w) == [w EXCEPT !.neighbor.ncalls = 0]

\* lines 213-224 of setup: domain, communication and neighboring
setup_domain(w) ==
  zero_ncalls(Call(lamda2x(Call(sort_if_due(Call(reset_box(Call(x2lamda(
    Call(w, "atom.setup")), "domain.pbc")), "comm.exchange"),
    env.sortfreq > 0), "comm.borders")), "neighbor.build"))

\* modify->setup_pre_force(vflag);
setup_pre_force(w) == Call1(w, "modify.setup_pre_force", w.min.vflag)

\* modify->setup(vflag);
modify_setup(w) == Call1(w, "modify.setup", w.min.vflag)

\* lines 235-276 of setup: the first evaluation and the snapshots
setup_forces(w) ==
  snapshot_initial(Call1(modify_setup(force_field(
    setup_pre_force(ev_clear(reset_vectors(w))), TRUE)), "output.setup", 1))

\* lines 228-231: extra DOFs need a style with a line search
setup_check(w) ==
  IF w.min.nextra_global # 0 /\ env.searchflag = 0
    THEN error_all(w,
           "Cannot use a damped dynamics min style with fix box/relax")
    ELSE IF w.min.nextra_atom # 0 /\ env.searchflag = 0
      THEN error_all(w,
             "Cannot use a damped dynamics min style with per-atom DOF")
      ELSE w

\* the rest of an operation runs only if error->all() has not ended the run
forces_unless_error(w) == IF w.err # "" THEN w ELSE setup_forces(w)

\* a plausible bug: the restriction on extra DOFs tested after the forces
\* have been computed
setup_rest_LateCheck(w) ==
  setup_check(setup_forces(setup_domain(w)))

\* lines 209-276 of setup
setup_rest(w) ==
  forces_unless_error(setup_check(setup_domain(w)))

\* a plausible bug: the answer of find_compute used without the test
setup_found_NoCheck(w, id) == setup_rest(setup_dof(w, id))

\* lines 189-276 of setup, id being what find_compute("thermo_pe") returned
setup_found(w, id) ==
  IF id < 0
    THEN error_all(w, "Minimization could not find thermo_pe compute")
    ELSE setup_rest(setup_dof(w, id))

\* Min::setup
setup(w) ==
  setup_found(Call(setup_global(w), "modify.find_compute"),
              find_compute(w.modify.compute, "thermo_pe"))

\* a plausible bug: the flag ignored, the rebuild made in every case
minimal_domain_Always(w, flag) ==
  zero_ncalls(Call(lamda2x(Call(Call(reset_box(Call(x2lamda(w),
    "domain.pbc")), "comm.exchange"), "comm.borders")),
    "neighbor.build"))

\* lines 291-302 of setup_minimal
minimal_domain(w, flag) ==
  IF flag # 0
    THEN zero_ncalls(Call(lamda2x(Call(Call(reset_box(Call(x2lamda(w),
           "domain.pbc")), "comm.exchange"), "comm.borders")),
           "neighbor.build"))
    ELSE w

\* Min::setup_minimal(flag)
setup_minimal(w, flag) ==
  snapshot_initial(modify_setup(force_field(
    setup_pre_force(ev_clear(reset_vectors(minimal_domain(w, flag)))), TRUE)))

\* ------------------------------------------------------ Min::energy_force

\* lines 433-437
box_change(w) == IF env.box_change THEN reset_box(w) ELSE w

\* lines 426-446 of energy_force: the full migration sequence
migrate(w) ==
  Call(lamda2x(Call(sort_if_due(Call(box_change(Call(x2lamda(
    CallIf(env.n_min_pre_exchange > 0, w, "modify.min_pre_exchange")),
    "domain.pbc")), "comm.exchange"),
    env.sortfreq > 0 /\ w.update.ntimestep >= w.atom.nextsort),
    "comm.borders")), "neighbor.build")

\* a plausible bug: the full migration sequence run whatever decide answered
reneighbor_Always(w, nflag) ==
  migrate(Call1(w, "neighbor.decide", nflag))

\* lines 419-447: nflag is what neighbor->decide() answered
reneighbor(w, nflag) ==
  IF nflag = 0
    THEN Call(Call1(w, "neighbor.decide", nflag), "comm.forward_comm")
    ELSE migrate(Call1(w, "neighbor.decide", nflag))

\* a plausible bug: the reference positions reset whenever resetflag is set,
\* rebuild or not
after_rebuild_NoRebuildTest(w, nflag, resetflag) ==
  IF resetflag # 0
    THEN reset_vectors(Call(w, "fix_minimize.reset_coords"))
    ELSE IF nflag # 0 THEN reset_vectors(w) ELSE w

\* lines 507-510: what follows a rebuild
after_rebuild(w, nflag, resetflag) ==
  IF nflag # 0
    THEN reset_vectors(CallIf(resetflag # 0, w, "fix_minimize.reset_coords"))
    ELSE w

pre_force(w) ==
  IF env.n_min_pre_force > 0
    THEN Call1(w, "modify.min_pre_force", w.min.vflag) ELSE w

post_force(w) ==
  IF env.n_min_post_force > 0
    THEN Call1(w, "modify.min_post_force", w.min.vflag) ELSE w

\* Min::energy_force(resetflag); nflag is the answer of neighbor->decide();
\* the energy returned is left in ret
energy_force(w, resetflag, nflag) ==
  after_rebuild(energy_of(post_force(force_field(pre_force(ev_clear(
    reneighbor(Call1(w, "energy_force", resetflag), nflag))), FALSE))),
    nflag, resetflag)

\* ------------------------------------------------- Min::run and cleanup

\* a plausible bug: the dump and restart schedules forced although output is
\* restricted
force_output_Unrestricted(w) ==
  [Call1(w, "output.next_thermo", w.update.ntimestep) EXCEPT
     !.update.nsteps = w.min.niter,
     !.output.next_dump = [i \in DOMAIN @ |-> w.update.ntimestep],
     !.output.next_dump_any = w.update.ntimestep,
     !.output.next_restart =
        IF env.restart_every # 0 THEN w.update.ntimestep ELSE @,
     !.output.next_thermo = w.update.ntimestep]

\* lines 369-377: the output schedules are forced to this step
force_output(w) ==
  [Call1(w, "output.next_thermo", w.update.ntimestep) EXCEPT
     !.update.nsteps = w.min.niter,
     !.output.next_dump =
        IF env.restrict_output = 0
          THEN [i \in DOMAIN @ |-> w.update.ntimestep] ELSE @,
     !.output.next_dump_any =
        IF env.restrict_output = 0 THEN w.update.ntimestep ELSE @,
     !.output.next_restart =
        IF env.restrict_output = 0 /\ env.restart_every # 0
          THEN w.update.ntimestep ELSE @,
     !.output.next_thermo = w.update.ntimestep]

\* line 379
addstep(w) ==
  [Call1(w, "modify.addstep_compute_all", w.update.ntimestep) EXCEPT
     !.modify.compute = addstep_compute_all(@, w.update.ntimestep)]

\* lines 380-381
final_output(w) ==
  Call1([w EXCEPT !.min.ecurrent = w.ret], "output.write", w.update.ntimestep)

\* lines 357-358: iterate returned stop_condition
iterate_return(w, stop_condition) ==
  [Call1(w, "iterate.return", stop_condition) EXCEPT
     !.min.stop_condition = stop_condition]

\* a plausible bug: the final evaluation made with the reset flag set
final_eval_Reset(w, nflag) == energy_force(w, 1, nflag)

\* line 380:  energy_force(0)
final_eval(w, nflag) == energy_force(w, 0, nflag)

\* a plausible bug: the final output made whatever iterate returned
run_finish_Always(w, stop_condition, nflag) ==
  final_output(final_eval(addstep(force_output(
    iterate_return(w, stop_condition))), nflag))

\* lines 357-382 of run, from the return of iterate
run_finish(w, stop_condition, nflag) ==
  IF stop_condition # 0
    THEN final_output(final_eval(addstep(force_output(
           iterate_return(w, stop_condition))), nflag))
    ELSE iterate_return(w, stop_condition)

\* lines 391-393
cleanup_stats(w) ==
  [Call(Call(w, "fnorm_sqr"), "fnorm_inf") EXCEPT
     !.min.efinal = w.min.ecurrent,
     !.min.fnorm2_final =
        [sqrt |-> fnorm_sqr(<<my_proc(w)>>, w.min.nextra_global,
                            w.min.fextra)],
     !.min.fnorminf_final =
        fnorm_inf(<<my_proc(w)>>, w.min.nextra_global, w.min.fextra)]

\* a plausible bug: the minimizer's cadence left in force
cleanup_neighbor_NoRestore(w) == w

\* lines 397-399
cleanup_neighbor(w) ==
  [w EXCEPT
     !.neighbor.every = w.min.neigh_every,
     !.neighbor.delay = w.min.neigh_delay,
     !.neighbor.dist_check = w.min.neigh_dist_check]

\* a plausible bug: the fix left in place at the end of the run
cleanup_fix_Keep(w) == Call(w, "modify.delete_fix")

\* line 403
cleanup_fix(w) ==
  [Call(w, "modify.delete_fix") EXCEPT
     !.modify.fix = delete_fix(@, "MINIMIZE")]

\* Min::cleanup
cleanup(w) == cleanup_fix(cleanup_neighbor(cleanup_stats(w)))

\* ------------------------------------------------------------ initial state

\* Min::Min and the collaborators before the first minimization; the fields
\* the constructor leaves unset (0 here) are written before they are read;
\* dmax (0.1) is counted in tenths
MinNew ==
  [dmax |-> 1, linestyle |-> 0,
   elist_global |-> <<>>, elist_atom |-> <<>>,
   vlist_global |-> <<>>, vlist_atom |-> <<>>,
   nextra_global |-> 0, fextra |-> <<>>,
   nextra_atom |-> 0, xextra_atom |-> <<>>, fextra_atom |-> <<>>,
   extra_peratom |-> <<>>, extra_nlen |-> <<>>, extra_max |-> <<>>,
   requestor |-> <<>>,
   fix_minimize |-> 0, virial_style |-> 0, eflag |-> 0, vflag |-> 0,
   torqueflag |-> 0, erforceflag |-> 0, triclinic |-> FALSE,
   neigh_every |-> 0, neigh_delay |-> 0, neigh_dist_check |-> 0,
   niter |-> 0, neval |-> 0, pe_compute |-> 0, ndoftotal |-> 0, nvec |-> 0,
   ecurrent |-> [num |-> 0, den |-> 1], einitial |-> [num |-> 0, den |-> 1],
   efinal |-> [num |-> 0, den |-> 1],
   fnorm2_init |-> [sqrt |-> 0], fnorminf_init |-> 0,
   fnorm2_final |-> [sqrt |-> 0], fnorminf_final |-> 0,
   stop_condition |-> 0]

\* the settings of the collaborators that the core reads and never writes
EnvBase ==
  [newton_pair |-> TRUE, newton |-> TRUE, molecular |-> FALSE,
   pair |-> TRUE, bond |-> FALSE, angle |-> FALSE, dihedral |-> FALSE,
   improper |-> FALSE, kspace |-> FALSE,
   triclinic |-> FALSE, box_change |-> FALSE, neighbor_style |-> TRUE,
   sortfreq |-> 0,
   n_min_pre_exchange |-> 0, n_min_pre_force |-> 0, n_min_post_force |-> 0,
   normflag |-> FALSE, searchflag |-> 1, min_dof |-> 0,
   torque_flag |-> FALSE, erforce_flag |-> FALSE,
   restrict_output |-> 0, restart_every |-> 0,
   natoms |-> 2, nlocal |-> 2, nghost |-> 1, nthreads |-> 1,
   pe |-> 5, eglobal |-> 2, fglobal |-> 3, xforce |-> 0,
   reqs |-> {[pair |-> 1, peratom |-> 1, maxvalue |-> 1]},
   stops |-> {3}]

\* a diagnostic consumer: its id, the lists it belongs to and the steps it
\* is scheduled on
Compute(id, pe, peatom, press, pressatom, tlist) ==
  [id |-> id, peflag |-> pe, peatomflag |-> peatom, pressflag |-> press,
   pressatomflag |-> pressatom, tlist |-> tlist]

ThermoPe == Compute("thermo_pe", TRUE, FALSE, FALSE, FALSE, {0})

AtomNew ==
  [f |-> [i \in 1..((EnvBase.nlocal + EnvBase.nghost) * EnvBase.nthreads)
            |-> <<1, 1, 1>>],
   torque |-> [i \in 1..(EnvBase.nlocal + EnvBase.nghost) |-> <<1, 1, 1>>],
   erforce |-> [i \in 1..(EnvBase.nlocal + EnvBase.nghost) |-> 1],
   nextsort |-> 0, x |-> 0]

HistNew ==
  [pre |-> [every |-> 0, delay |-> 0, dist_check |-> 0],
   runs |-> 0, handles |-> <<>>, cleared |-> 0, op |-> "new", a |-> 0, b |-> 0,
   compute |-> <<>>, ret |-> 0, err |-> "", again |-> FALSE]

\* the partitioned system the norm calculator is explored on: natoms atoms
\* with their forces, owner[a] the process that owns atom a, at most one
\* per-atom extra DOF (one component per atom, force xforce[a]) and the global
\* extra DOFs' forces fextra; sqr and inf hold what the calls returned
NrmNew ==
  [natoms |-> 0, nprocs |-> 1, owner |-> <<>>, force |-> <<>>,
   nextra_atom |-> 0, xforce |-> <<>>,
   nextra_global |-> 0, fextra |-> <<>>,
   sqr |-> <<>>, inf |-> <<>>]

\* the state before the first minimization, for given settings, consumers
\* and neighbor cadence
StartCore(e, computes, cadence) ==
  /\ phase = "idle"
  /\ env = e
  /\ min = MinNew
  /\ neighbor = [every |-> cadence[1], delay |-> cadence[2],
                 dist_check |-> cadence[3], ncalls |-> 0]
  /\ update = [ntimestep |-> 0, nsteps |-> 0, eflag_global |-> 0,
               eflag_atom |-> 0, vflag_global |-> 0, vflag_atom |-> 0]
  /\ modify = [fix |-> <<"NVE">>, compute |-> computes]
  /\ output = [next_dump |-> <<MaxStep + 1>>, next_dump_any |-> MaxStep + 1,
               next_restart |-> MaxStep + 1, next_thermo |-> MaxStep + 1]
  /\ atom = AtomNew
  /\ trace = <<>>
  /\ hist = HistNew

Start(e, computes, cadence) ==
  /\ StartCore(e, computes, cadence)
  /\ nrm = NrmNew

\* ------------------------------------------------------------------ actions

Commit(w) ==
  /\ min' = w.min
  /\ neighbor' = w.neighbor
  /\ update' = w.update
  /\ modify' = w.modify
  /\ output' = w.output
  /\ atom' = w.atom
  /\ trace' = w.trace

\* the caller (the minimize command) initializes a minimization
InitOp ==
  /\ phase = "idle"
  /\ hist.runs < MaxRuns
  /\ Commit(init(World))
  /\ phase' = "inited"
  /\ hist' = [hist EXCEPT
                !.pre = [every |-> neighbor.every, delay |-> neighbor.delay,
                         dist_check |-> neighbor.dist_check],
                !.runs = @ + 1,
                !.handles = <<>>, !.cleared = min.nextra_atom,
                !.again = FALSE, !.op = "init", !.a = 0, !.b = 0,
                !.compute = <<>>, !.ret = 0]
  /\ UNCHANGED <<env, nrm>>

\* a pair style registers a per-atom extra DOF during its own init
Request ==
  /\ phase = "inited"
  /\ min.nextra_atom < MaxExtra
  /\ \E q \in env.reqs :
       LET r == request(World, q.pair, q.peratom, q.maxvalue)
       IN /\ Commit(r)
          /\ hist' = [hist EXCEPT
                        !.handles = Append(@, [h |-> r.ret, pair |-> q.pair,
                                               peratom |-> q.peratom,
                                               maxvalue |-> q.maxvalue]),
                        !.again = FALSE, !.op = "request", !.a = q.peratom, !.b = q.maxvalue,
                        !.compute = <<>>, !.ret = r.ret]
  /\ UNCHANGED <<phase, env, nrm>>

Setup ==
  /\ phase = "inited"
  /\ LET w == setup(World)
     IN /\ Commit(w)
        /\ phase' = IF w.err # "" THEN "aborted" ELSE "ready"
        /\ hist' = [hist EXCEPT !.again = FALSE, !.op = "setup", !.a = 0, !.b = 0,
                                !.compute = modify.compute, !.ret = 0,
                                !.err = w.err]
  /\ UNCHANGED <<env, nrm>>

\* setup_minimal reads pe_compute, which only setup sets: it follows a setup
\* of an earlier minimization
SetupMinimal ==
  /\ phase = "inited"
  /\ min.pe_compute # 0
  /\ \E flag \in 0..1 :
       /\ Commit(setup_minimal(World, flag))
       /\ hist' = [hist EXCEPT !.again = FALSE, !.op = "setup_minimal", !.a = flag, !.b = 0,
                               !.compute = modify.compute, !.ret = 0]
  /\ phase' = "ready"
  /\ UNCHANGED <<env, nrm>>

\* run(n) is entered and calls iterate(n)
RunBegin ==
  /\ phase = "ready"
  /\ phase' = "iterating"
  /\ trace' = <<Ev("iterate", 0, 0)>>
  /\ hist' = [hist EXCEPT !.again = FALSE, !.op = "run", !.a = 0, !.b = 0,
                          !.compute = <<>>, !.ret = 0]
  /\ UNCHANGED <<env, min, neighbor, update, modify, output, atom, nrm>>

\* iterate: the search style starts its next iteration and moves the atoms
IterStep ==
  /\ phase = "iterating"
  /\ update.ntimestep < MaxStep
  /\ update' = [update EXCEPT !.ntimestep = @ + 1]
  /\ min' = [min EXCEPT !.niter = @ + 1]
  /\ atom' = [atom EXCEPT !.x = @ + 1]
  /\ trace' = <<Ev("iterate", 0, 0)>>
  /\ hist' = [hist EXCEPT !.again = FALSE, !.op = "iterate", !.a = 0, !.b = 0,
                          !.compute = <<>>, !.ret = 0]
  /\ UNCHANGED <<phase, env, neighbor, modify, output, nrm>>

\* iterate: the search style evaluates energy and forces
EnergyForce ==
  /\ phase = "iterating"
  /\ \E resetflag \in 0..1, nflag \in 0..1 :
       LET r == energy_force(World, resetflag, nflag)
       IN /\ Commit(r)
          /\ hist' = [hist EXCEPT !.op = "energy_force", !.a = resetflag,
                                  !.again = (/\ hist.op = "energy_force"
                                             /\ hist.a = 0 /\ hist.b = 0
                                             /\ resetflag = 0 /\ nflag = 0),
                                  !.b = nflag, !.compute = modify.compute,
                                  !.ret = r.ret]
  /\ UNCHANGED <<phase, env, nrm>>

\* iterate returns its termination code and run finishes
RunFinish ==
  /\ phase = "iterating"
  /\ \E stop_condition \in env.stops, nflag \in 0..1 :
       /\ Commit(run_finish(World, stop_condition, nflag))
       /\ hist' = [hist EXCEPT
                     !.again = FALSE, !.op = "run_finish", !.a = stop_condition, !.b = nflag,
                     !.ret = 0,
                     !.compute =
                        addstep_compute_all(modify.compute, update.ntimestep)]
  /\ phase' = "stopped"
  /\ UNCHANGED <<env, nrm>>

Cleanup ==
  /\ phase = "stopped"
  /\ Commit(cleanup(World))
  /\ phase' = "idle"
  /\ hist' = [hist EXCEPT !.again = FALSE, !.op = "cleanup", !.a = 0, !.b = 0,
                          !.compute = <<>>, !.ret = 0]
  /\ UNCHANGED <<env, nrm>>

Next ==
  \/ InitOp
  \/ Request
  \/ Setup
  \/ SetupMinimal
  \/ RunBegin
  \/ IterStep
  \/ EnergyForce
  \/ RunFinish
  \/ Cleanup

\* ----------------------------------------------------------- specifications

\* the settings the lifecycle is explored under: the search style with or
\* without a line search (s), with or without a global extra DOF (d), every
\* termination code class, and a plain orthogonal box or (rich) a changing
\* triclinic box with fix hooks and atom sorting
Settings(s, d, rich) ==
  [EnvBase EXCEPT !.searchflag = s, !.min_dof = d,
                  !.stops = {0, 3},
                  !.box_change = rich, !.triclinic = rich,
                  !.n_min_pre_exchange = IF rich THEN 1 ELSE 0,
                  !.n_min_pre_force = IF rich THEN 1 ELSE 0,
                  !.n_min_post_force = IF rich THEN 1 ELSE 0,
                  !.sortfreq = IF rich THEN 1 ELSE 0]

\* the rich box goes with the settings s = d, the plain box with the others
Init ==
  \E s \in 0..1, d \in 0..1, withpe \in BOOLEAN :
    Start(Settings(s, d, s = d), IF withpe THEN <<ThermoPe>> ELSE <<>>,
          <<1, 0, 1>>)

Spec == Init /\ [][Next]_vars

\* the registry explored with two pair styles whose requests differ
InitReg ==
  Start([EnvBase EXCEPT
           !.reqs = {[pair |-> 1, peratom |-> 1, maxvalue |-> 1],
                     [pair |-> 2, peratom |-> 2, maxvalue |-> 5]}],
        <<ThermoPe>>, <<1, 0, 1>>)

SpecReg == InitReg /\ [][Next]_vars

\* the neighbor cadence explored from the settings (k+1, k, d) up to
\* MaxCadence, none of them the cadence that init imposes
InitCad ==
  \E k \in 0..MaxCadence, dist_check \in 0..1 :
    Start(EnvBase, <<ThermoPe>>, <<k + 1, k, dist_check>>)

SpecCad == InitCad /\ [][Next]_vars

\* the final output of run explored under every configuration of the output
\* subsystem: output restricted or not, restart files written or not
InitOut ==
  \E restrict \in 0..1, every \in 0..1 :
    Start([EnvBase EXCEPT !.restrict_output = restrict,
                          !.restart_every = every,
                          !.stops = {0, 3}],
          <<ThermoPe>>, <<1, 0, 1>>)

SpecOut == InitOut /\ [][Next]_vars

\* the clearing of the buffers explored with Newton's third law on and off
\* and with atom models that carry torques or electron forces or neither
InitClear ==
  \E newton \in BOOLEAN, torque \in BOOLEAN, erforce \in BOOLEAN :
    Start([EnvBase EXCEPT !.newton_pair = newton, !.newton = newton,
                          !.torque_flag = torque, !.erforce_flag = erforce],
          <<ThermoPe>>, <<1, 0, 1>>)

SpecClear == InitClear /\ [][Next]_vars

\* the energy explored with and without a global extra DOF and with thermo
\* output normalized by the atom count or not
InitEnergy ==
  \E d \in 0..1, normflag \in BOOLEAN, stop \in {0, 3} :
    Start([EnvBase EXCEPT !.min_dof = d, !.normflag = normflag,
                          !.stops = {stop}],
          <<ThermoPe>>, <<1, 0, 1>>)

SpecEnergy == InitEnergy /\ [][Next]_vars

\* the bonded styles a force field may have: all four, or two of them
BondedStyles ==
  {<<TRUE, TRUE, TRUE, TRUE>>, <<TRUE, FALSE, TRUE, FALSE>>,
   <<FALSE, TRUE, FALSE, TRUE>>}

\* the order of an evaluation explored over the force fields: with a pair
\* style (which registers per-atom extra DOFs) or, for a molecular system
\* with all bonded styles, without one; bonded styles of a molecular or an
\* atomic system, a long-range solver, Newton's third law on or off, fixes
\* with or without force hooks
InitOrder ==
  \E hasPair \in BOOLEAN, hasKspace \in BOOLEAN, newton \in BOOLEAN,
     molecular \in BOOLEAN, b \in BondedStyles :
    /\ molecular \/ b = <<TRUE, TRUE, TRUE, TRUE>>
    /\ hasPair \/ (molecular /\ b = <<TRUE, TRUE, TRUE, TRUE>>)
    /\ Start([EnvBase EXCEPT
                !.pair = hasPair, !.kspace = hasKspace,
                !.newton_pair = newton, !.newton = newton,
                !.molecular = molecular,
                !.bond = b[1], !.angle = b[2], !.dihedral = b[3],
                !.improper = b[4],
                !.n_min_pre_force = IF hasKspace = newton THEN 1 ELSE 0,
                !.n_min_post_force = IF hasPair = newton THEN 1 ELSE 0,
                !.reqs = IF hasPair THEN @ ELSE {}],
             <<ThermoPe>>, <<1, 0, 1>>)

SpecOrder == InitOrder /\ [][Next]_vars

\* the scheduler explored with consumers of all four lists, scheduled on no
\* step, on the first step and on the last step
PeAtom(tlist) == Compute("pe_atom", FALSE, TRUE, FALSE, FALSE, tlist)

Pressure(tlist) == Compute("thermo_press", FALSE, FALSE, TRUE, FALSE, tlist)

StressAtom(tlist) == Compute("stress_atom", FALSE, FALSE, FALSE, TRUE, tlist)

EvComputes ==
  {<<ThermoPe>>,
   <<ThermoPe, PeAtom({0}), Pressure({MaxStep}), StressAtom({0})>>,
   <<ThermoPe, PeAtom({MaxStep}), Pressure({0}), StressAtom({MaxStep})>>,
   <<ThermoPe, Pressure({}), Pressure({0, MaxStep}), StressAtom({0, MaxStep}),
     PeAtom({}), PeAtom({MaxStep})>>}

InitEv ==
  \E np \in BOOLEAN, computes \in EvComputes :
    Start([EnvBase EXCEPT !.newton_pair = np, !.newton = np],
          computes, <<1, 0, 1>>)

SpecEv == InitEv /\ [][Next]_vars

\* ------------------------------------------------------- the norms, partitioned

\* the atoms 1..n that process q owns, in ascending order
RECURSIVE owned(_, _, _)
owned(owner, q, n) ==
  IF n = 0 THEN <<>>
  ELSE IF owner[n] = q THEN Append(owned(owner, q, n - 1), n)
       ELSE owned(owner, q, n - 1)

\* what process q holds: nvec = 3*nlocal force components in fvec, and for the
\* per-atom extra DOF a buffer of extra_nlen = extra_peratom*nlocal forces
proc_of(lst) ==
  [nvec |-> 3 * Len(lst),
   fvec |-> [i \in 1..(3 * Len(lst)) |->
               nrm.force[lst[((i - 1) \div 3) + 1]][((i - 1) % 3) + 1]],
   nextra_atom |-> nrm.nextra_atom,
   fextra_atom |-> [m \in 1..nrm.nextra_atom |->
                      [i \in 1..Len(lst) |-> nrm.xforce[lst[i]]]],
   extra_nlen |-> [m \in 1..nrm.nextra_atom |-> Len(lst)]]

world_procs ==
  [q \in 1..nrm.nprocs |-> proc_of(owned(nrm.owner, q, nrm.natoms))]

\* every process calls fnorm_sqr()
FnormSqr ==
  /\ phase = "norms"
  /\ nrm.sqr = <<>>
  /\ nrm' = [nrm EXCEPT
               !.sqr = <<fnorm_sqr(world_procs, nrm.nextra_global, nrm.fextra)>>]
  /\ UNCHANGED <<phase, env, min, neighbor, update, modify, output, atom,
                 trace, hist>>

\* every process calls fnorm_inf()
FnormInf ==
  /\ phase = "norms"
  /\ nrm.inf = <<>>
  /\ nrm' = [nrm EXCEPT
               !.inf = <<fnorm_inf(world_procs, nrm.nextra_global, nrm.fextra)>>]
  /\ UNCHANGED <<phase, env, min, neighbor, update, modify, output, atom,
                 trace, hist>>

NextNorm == FnormSqr \/ FnormInf

ForceVecs == {<<0, 0, 0>>, <<1, 0, 0>>, <<0, -2, 0>>, <<1, -1, 2>>}

InitNorm ==
  /\ phase = "norms"
  /\ env = EnvBase
  /\ min = MinNew
  /\ neighbor = [every |-> 1, delay |-> 0, dist_check |-> 1, ncalls |-> 0]
  /\ update = [ntimestep |-> 0, nsteps |-> 0, eflag_global |-> 0,
               eflag_atom |-> 0, vflag_global |-> 0, vflag_atom |-> 0]
  /\ modify = [fix |-> <<"NVE">>, compute |-> <<ThermoPe>>]
  /\ output = [next_dump |-> <<MaxStep + 1>>, next_dump_any |-> MaxStep + 1,
               next_restart |-> MaxStep + 1, next_thermo |-> MaxStep + 1]
  /\ atom = AtomNew
  /\ trace = <<>>
  /\ hist = HistNew
  /\ \E n \in 0..NAtoms, np \in 1..MaxProcs, xa \in 0..1, xg \in 0..1 :
       \E ow \in [1..n -> 1..np], f \in [1..n -> ForceVecs],
          xf \in [1..n -> IF xa = 1 THEN {0, -3} ELSE {0}],
          fx \in [1..xg -> {3, -4}] :
         nrm = [natoms |-> n, nprocs |-> np, owner |-> ow, force |-> f,
                nextra_atom |-> xa, xforce |-> xf,
                nextra_global |-> xg, fextra |-> fx,
                sqr |-> <<>>, inf |-> <<>>]

SpecNorm == InitNorm /\ [][NextNorm]_vars

\* ------------------------------------------------- the group of processes

\* the calls in which a process waits for every other process of the group
Collectives ==
  {"comm.forward_comm", "comm.exchange", "comm.borders", "comm.reverse_comm",
   "MPI_Allreduce.MPI_SUM", "MPI_Allreduce.MPI_MAX"}

\* the Min object of process q as it enters energy_force: the settings are
\* those of every process, the vector lengths and buffers are its own
ProcWorld(q) ==
  [World EXCEPT
     !.min.triclinic = env.triclinic,
     !.min.nextra_global = nrm.nextra_global,
     !.min.fextra = nrm.fextra,
     !.min.nextra_atom = world_procs[q].nextra_atom,
     !.min.requestor = [m \in 1..world_procs[q].nextra_atom |-> 1],
     !.min.extra_peratom = [m \in 1..world_procs[q].nextra_atom |-> 1],
     !.min.extra_nlen = world_procs[q].extra_nlen,
     !.min.fextra_atom = world_procs[q].fextra_atom,
     !.min.nvec = world_procs[q].nvec]

\* lines 704-716: the local sum, then MPI_Allreduce(..., MPI_SUM, world)
fnorm_sqr_calls(w) == Call(Call(w, "fnorm_sqr"), "MPI_Allreduce.MPI_SUM")

\* lines 734-747: the local maximum, then MPI_Allreduce(..., MPI_MAX, world)
fnorm_inf_calls(w) == Call(Call(w, "fnorm_inf"), "MPI_Allreduce.MPI_MAX")

\* the calls process q makes in energy_force, fnorm_sqr and fnorm_inf
Calls(q) ==
  fnorm_inf_calls(fnorm_sqr_calls(
    energy_force(ProcWorld(q), 0, nrm.nflag))).trace

\* the names of the calls of a trace
Names(tr) == [k \in DOMAIN tr |-> tr[k].op]

Procs == 1..nrm.nprocs

\* process q has been started
Entered(q) == nrm.prog[q] # <<>>

\* the k-th call process q is to make
Op(q, k) == nrm.prog[q][k].op

Done(q) == Entered(q) /\ nrm.pc[q] = Len(nrm.prog[q])

\* process q has entered a collective and waits in it
Blocked(q) ==
  /\ nrm.pc[q] < Len(nrm.prog[q])
  /\ Op(q, nrm.pc[q] + 1) \in Collectives

\* the calls process q has made when it next waits or returns
NextStop(q) ==
  CHOOSE k \in (nrm.pc[q] + 1)..Len(nrm.prog[q]) :
    /\ k = Len(nrm.prog[q]) \/ Op(q, k + 1) \in Collectives
    /\ \A j \in (nrm.pc[q] + 1)..(k - 1) : Op(q, j + 1) \notin Collectives

\* every process of the group waits in the collective op
Meet(op) == \A q \in Procs : Blocked(q) /\ Op(q, nrm.pc[q] + 1) = op

\* every process of the group is started on energy_force and the two norms
Enter ==
  /\ phase = "spawned"
  /\ phase' = "group"
  /\ nrm' = [nrm EXCEPT !.prog = [q \in Procs |-> Calls(q)]]
  /\ UNCHANGED <<env, min, neighbor, update, modify, output, atom, trace, hist>>

\* a process runs on its own up to its next collective or its return
Run ==
  /\ phase = "group"
  /\ \E q \in Procs :
       /\ Entered(q)
       /\ ~Done(q)
       /\ ~Blocked(q)
       /\ nrm' = [nrm EXCEPT !.pc[q] = NextStop(q)]
  /\ UNCHANGED <<phase, env, min, neighbor, update, modify, output, atom,
                 trace, hist>>

\* the collective every process of the group has entered completes, and
\* every process goes on
Collective ==
  /\ phase = "group"
  /\ \E op \in Collectives : Meet(op)
  /\ nrm' = [nrm EXCEPT !.pc = [q \in Procs |-> @[q] + 1]]
  /\ UNCHANGED <<phase, env, min, neighbor, update, modify, output, atom,
                 trace, hist>>

NextGroup == Enter \/ Run \/ Collective

\* the group explored for every assignment of up to NAtoms atoms to up to
\* MaxProcs processes, with or without a per-atom extra DOF, the rebuild
\* decision and the replicated settings the same on every process
InitGroup ==
  /\ phase = "spawned"
  /\ \E nflag \in 0..1, newton \in BOOLEAN :
       env = [EnvBase EXCEPT
                !.newton_pair = newton, !.newton = newton,
                !.triclinic = (nflag = 1 /\ newton),
                !.box_change = (nflag = 1 /\ ~newton),
                !.sortfreq = IF newton THEN 1 ELSE 0]
       /\ \E n \in 0..NAtoms, np \in 1..MaxProcs, xa \in 0..1 :
            \E ow \in [1..n -> 1..np] :
              nrm = [natoms |-> n, nprocs |-> np, owner |-> ow,
                     force |-> [a \in 1..n |-> <<1, -a, 0>>],
                     nextra_atom |-> xa, xforce |-> [a \in 1..n |-> -3 * xa],
                     nextra_global |-> 0, fextra |-> <<>>,
                     sqr |-> <<>>, inf |-> <<>>,
                     nflag |-> nflag, prog |-> [q \in 1..np |-> <<>>],
                     pc |-> [q \in 1..np |-> 0]]
  /\ min = MinNew
  /\ neighbor = [every |-> 1, delay |-> 0, dist_check |-> 1, ncalls |-> 0]
  /\ update = [ntimestep |-> 0, nsteps |-> 0, eflag_global |-> 0,
               eflag_atom |-> 0, vflag_global |-> 0, vflag_atom |-> 0]
  /\ modify = [fix |-> <<"NVE">>, compute |-> <<ThermoPe>>]
  /\ output = [next_dump |-> <<MaxStep + 1>>, next_dump_any |-> MaxStep + 1,
               next_restart |-> MaxStep + 1, next_thermo |-> MaxStep + 1]
  /\ atom = AtomNew
  /\ trace = <<>>
  /\ hist = HistNew

\* a started process that can run does run, and a collective every process
\* has entered completes
SpecGroup ==
  /\ InitGroup
  /\ [][NextGroup]_vars
  /\ WF_vars(Run \/ Collective)

\* ---------------------------------------------------------------- properties

\* the calls of the last operation that are named op
Times(op) == Cardinality({i \in DOMAIN trace : trace[i].op = op})

Called(op) == \E i \in DOMAIN trace : trace[i].op = op

\* the position of the first call named op
Pos(op) == CHOOSE i \in DOMAIN trace :
             /\ trace[i].op = op
             /\ \A j \in DOMAIN trace : trace[j].op = op => i <= j

\* the names of the calls at the positions from..to
OpsOf(from, to) == [k \in 1..(to - from + 1) |-> trace[from + k - 1].op]

\* what counts as force evaluation: the scheduler, the clearing of the force
\* buffers and the contributors of the force field
ForceOps ==
  {"ev_set", "force_clear", "pair.compute", "bond.compute", "angle.compute",
   "dihedral.compute", "improper.compute", "kspace.compute"}

DampedErrors ==
  {"Cannot use a damped dynamics min style with fix box/relax",
   "Cannot use a damped dynamics min style with per-atom DOF"}

\* C1: a setup that finds an extra DOF (global or per-atom) under a search
\* style with searchflag = 0 ends in a fatal error, which is the error about
\* the damped style whenever thermo_pe was found, and up to the abort that
\* setup has called neither ev_set nor force_clear nor any contributor
C1_SetupAbortsBeforeForces ==
  (/\ hist.op = "setup"
   /\ (min.nextra_global > 0 \/ min.nextra_atom > 0)
   /\ env.searchflag = 0)
  => /\ phase = "aborted"
     /\ hist.err # ""
     /\ find_compute(modify.compute, "thermo_pe") >= 0
          => hist.err \in DampedErrors
     /\ \A i \in DOMAIN trace : trace[i].op \notin ForceOps

\* a setup that aborted on a per-atom extra DOF alone, after the neighbor
\* lists were built
C1_Witness ==
  /\ hist.op = "setup"
  /\ env.searchflag = 0
  /\ min.nextra_atom > 0
  /\ min.nextra_global = 0
  /\ phase = "aborted"
  /\ hist.err = "Cannot use a damped dynamics min style with per-atom DOF"
  /\ Called("neighbor.build")

\* ----- energy_force, alone or as the final evaluation of run

\* the last operation called energy_force
InEF == Called("energy_force")

\* the calls energy_force made, from its entry to its return
EFLast ==
  IF Called("output.write") THEN Pos("output.write") - 1 ELSE Len(trace)

EFTimes(op) ==
  Cardinality({i \in Pos("energy_force")..EFLast : trace[i].op = op})

\* the calls between the question to the neighbor subsystem and the scheduler
Exchange == OpsOf(Pos("neighbor.decide") + 1, Pos("ev_set") - 1)

\* the calls of the full migration that move atoms or rebuild lists
MigrationOps ==
  {"modify.min_pre_exchange", "domain.x2lamda", "domain.pbc",
   "domain.reset_box", "comm.setup", "neighbor.setup_bins", "comm.exchange",
   "atom.sort", "comm.borders", "domain.lamda2x", "neighbor.build"}

Opt(c, op) == IF c THEN <<op>> ELSE <<>>

\* the full migration sequence of the settings, the optional sort left out
Migration ==
  Opt(env.n_min_pre_exchange > 0, "modify.min_pre_exchange")
  \o Opt(env.triclinic, "domain.x2lamda")
  \o <<"domain.pbc">>
  \o Opt(env.box_change, "domain.reset_box")
  \o Opt(env.box_change, "comm.setup")
  \o Opt(env.box_change /\ env.neighbor_style, "neighbor.setup_bins")
  \o <<"comm.exchange", "comm.borders">>
  \o Opt(env.triclinic, "domain.lamda2x")
  \o <<"neighbor.build">>

\* C8: a call of energy_force asks neighbor.decide exactly once; on the
\* answer 0 the only call before the scheduler is forward_comm and no call
\* of the migration is made; on a nonzero answer forward_comm is not called
\* and the calls before the scheduler are the full migration in order, with
\* at most one sort between exchange and borders
C8_OnePathPerCall ==
  InEF =>
    /\ EFTimes("neighbor.decide") = 1
    /\ trace[Pos("neighbor.decide")].a = hist.b
    /\ hist.b = 0 =>
         /\ Exchange = <<"comm.forward_comm">>
         /\ \A op \in MigrationOps : EFTimes(op) = 0
    /\ hist.b # 0 =>
         /\ EFTimes("comm.forward_comm") = 0
         /\ SelectSeq(Exchange, LAMBDA op : op # "atom.sort") = Migration
         /\ EFTimes("atom.sort") <= 1
         /\ Called("atom.sort") =>
              /\ Pos("comm.exchange") < Pos("atom.sort")
              /\ Pos("atom.sort") < Pos("comm.borders")
         /\ \A op \in MigrationOps : EFTimes(op) <= 1

\* an evaluation on the lightweight path in a changing triclinic box
C8_Witness ==
  /\ hist.op = "energy_force"
  /\ hist.b = 0
  /\ env.box_change
  /\ Called("comm.forward_comm")
  /\ Called("pair.compute")

\* C9: in a call of energy_force reset_coords is called once if decide
\* answered nonzero and resetflag is nonzero and otherwise not at all;
\* reset_vectors is called once if decide answered nonzero and otherwise not
\* at all; both come after the energy was computed, reset_vectors is the last
\* call of energy_force and follows reset_coords
C9_ResetAfterRebuild ==
  InEF =>
    LET resetflag == trace[Pos("energy_force")].a
        nflag == hist.b
    IN /\ EFTimes("fix_minimize.reset_coords")
            = IF nflag # 0 /\ resetflag # 0 THEN 1 ELSE 0
       /\ EFTimes("reset_vectors") = IF nflag # 0 THEN 1 ELSE 0
       /\ nflag # 0 =>
            /\ Pos("reset_vectors") = EFLast
            /\ Pos("pe_compute.compute_scalar") < Pos("reset_vectors")
       /\ (nflag # 0 /\ resetflag # 0) =>
            /\ Pos("fix_minimize.reset_coords") = EFLast - 1
            /\ Pos("pe_compute.compute_scalar")
                 < Pos("fix_minimize.reset_coords")

\* a rebuild in a call with resetflag = 0: the aliases alone are refreshed
C9_Witness ==
  /\ hist.op = "energy_force"
  /\ hist.a = 0
  /\ hist.b = 1
  /\ Called("neighbor.build")
  /\ Called("reset_vectors")
  /\ ~Called("fix_minimize.reset_coords")

\* ----- the scheduler

\* the step ev_set was called for by the last operation
EvStep == trace[Pos("ev_set")].a

\* does a consumer with the given flag, as the consumers were when the last
\* operation began, have step t on its schedule
Matches(flag, t) ==
  \E i \in DOMAIN hist.compute :
     hist.compute[i][flag] /\ t \in hist.compute[i].tlist

\* C2: after an operation that called ev_set, eflag is 1 or 3, and it is 3
\* exactly if a consumer of per-atom energy is scheduled on the step ev_set
\* was called for
C2_EnergyMode ==
  Called("ev_set") =>
    /\ min.eflag \in {1, 3}
    /\ min.eflag = 3 <=> Matches("peatomflag", EvStep)
    /\ ~Matches("peatomflag", EvStep) => min.eflag = 1

\* per-atom energy demanded on the last step, by one of two per-atom
\* consumers, the other one having nothing scheduled
C2_Witness ==
  /\ hist.op = "energy_force"
  /\ EvStep = MaxStep
  /\ min.eflag = 3
  /\ \E i \in DOMAIN hist.compute :
       hist.compute[i].peatomflag /\ hist.compute[i].tlist = {}

\* the virial method of the force field
VirialStyle == IF env.newton_pair THEN 2 ELSE 1

\* C3: after an operation that called ev_set, vflag = G + A, G being the
\* virial method (2 with newton_pair, else 1) if a consumer of the global
\* virial is scheduled on the step and else 0, A being 4 if a consumer of the
\* per-atom virial is scheduled on the step and else 0; vflag is one of
\* 0, 1, 2, 4, 5, 6; from the first init on virial_style is the virial
\* method, and no operation but init changes virial_style
C3_VirialMode ==
  /\ [](Called("ev_set") =>
          /\ min.vflag
               = (IF Matches("pressflag", EvStep) THEN VirialStyle ELSE 0)
                 + (IF Matches("pressatomflag", EvStep) THEN 4 ELSE 0)
          /\ min.vflag \in {0, 1, 2, 4, 5, 6})
  /\ [](hist.op # "new" => min.virial_style = VirialStyle)
  /\ [][min.virial_style' # min.virial_style => hist'.op = "init"]_vars

\* global virial by the sum over ghost atoms together with per-atom virial
C3_Witness ==
  /\ hist.op = "energy_force"
  /\ env.newton_pair
  /\ min.vflag = 6
  /\ Called("pair.compute")

\* ----- the norms

\* the squared force on the atoms 1..n and on their per-atom extra DOF, with
\* no reference to the partition
RECURSIVE AtomsSqr(_)
AtomsSqr(n) ==
  IF n = 0 THEN 0
  ELSE AtomsSqr(n - 1)
       + nrm.force[n][1] * nrm.force[n][1]
       + nrm.force[n][2] * nrm.force[n][2]
       + nrm.force[n][3] * nrm.force[n][3]
       + (IF nrm.nextra_atom = 1 THEN nrm.xforce[n] * nrm.xforce[n] ELSE 0)

RECURSIVE GlobalSqr(_)
GlobalSqr(n) ==
  IF n = 0 THEN 0 ELSE GlobalSqr(n - 1) + nrm.fextra[n] * nrm.fextra[n]

\* every force component of the system, as absolute values
Components ==
  {Abs(nrm.force[a][k]) : a \in 1..nrm.natoms, k \in 1..3}
  \cup {Abs(nrm.xforce[a]) : a \in {b \in 1..nrm.natoms : nrm.nextra_atom = 1}}
  \cup {Abs(nrm.fextra[i]) : i \in 1..nrm.nextra_global}

\* C4: fnorm_sqr returns the sum over all atoms of the squared force
\* components and squared per-atom extra forces, plus the square of every
\* global extra force once, whatever the number of partitions and whichever
\* partition owns which atom
C4_NormSqr ==
  nrm.sqr # <<>> => nrm.sqr[1] = AtomsSqr(nrm.natoms) + GlobalSqr(nrm.nextra_global)

\* atom forces of squared norm 4, split over two partitions, and one global
\* extra force 3 give 13
C4_Witness ==
  /\ nrm.sqr = <<13>>
  /\ nrm.nprocs = 2
  /\ nrm.natoms = 2
  /\ nrm.owner[1] # nrm.owner[2]
  /\ nrm.nextra_atom = 0
  /\ nrm.nextra_global = 1
  /\ nrm.fextra = <<3>>

\* C5: fnorm_inf returns the largest absolute value of all force components,
\* per-atom extra forces and global extra forces, whatever the partition; it
\* is never negative and is 0 if there is no component
C5_NormInf ==
  nrm.inf # <<>> =>
    /\ nrm.inf[1] >= 0
    /\ \A c \in Components : c <= nrm.inf[1]
    /\ nrm.inf[1] \in Components \cup {0}
    /\ Components = {} => nrm.inf[1] = 0

\* the largest component held by the second of three partitions, the other
\* two owning no atom
C5_Witness ==
  /\ nrm.inf = <<3>>
  /\ nrm.nprocs = 3
  /\ nrm.natoms = 2
  /\ nrm.owner = <<2, 2>>
  /\ nrm.nextra_atom = 1
  /\ nrm.nextra_global = 0

\* ----- the registry of per-atom extra DOFs

\* the parallel buffers of the registry all hold n slots
Slots(n) ==
  /\ min.nextra_atom = n
  /\ Len(min.xextra_atom) = n
  /\ Len(min.fextra_atom) = n
  /\ Len(min.extra_peratom) = n
  /\ Len(min.extra_nlen) = n
  /\ Len(min.extra_max) = n
  /\ Len(min.requestor) = n

\* C6: since the last init, the i-th request (counted from 0) returned
\* handle i and after k requests the registry holds exactly k slots; an init
\* leaves zero slots, no global extra DOF and empty buffers, so that the
\* first request after it returns handle 0
C6_HandlesCountFromZero ==
  /\ hist.op # "new" =>
       /\ Slots(Len(hist.handles))
       /\ \A i \in DOMAIN hist.handles : hist.handles[i].h = i - 1
  /\ hist.op = "request" => hist.ret = Len(hist.handles) - 1
  /\ hist.op = "init" =>
       /\ Slots(0)
       /\ min.nextra_global = 0
       /\ min.fextra = <<>>
       /\ min.xextra_atom = <<>>
       /\ min.fextra_atom = <<>>
       /\ min.requestor = <<>>

\* the first request of a second minimization, whose init released the two
\* slots of the first one, returns handle 0
C6_Witness ==
  /\ hist.op = "request"
  /\ hist.runs = 2
  /\ hist.cleared >= 2
  /\ hist.ret = 0
  /\ min.nextra_atom = 1

\* C7: from a request to the next init the slot of the handle it returned
\* holds the owner, the components per atom and the maximum step of that
\* request, whatever operation follows; the slot count changes only by a
\* request, which adds exactly one slot, and by init, which removes them all
C7_HandlesStable ==
  /\ [](\A i \in DOMAIN hist.handles :
          /\ hist.handles[i].h + 1 \in DOMAIN min.requestor
          /\ min.requestor[hist.handles[i].h + 1] = hist.handles[i].pair
          /\ min.extra_peratom[hist.handles[i].h + 1]
               = hist.handles[i].peratom
          /\ min.extra_max[hist.handles[i].h + 1] = hist.handles[i].maxvalue)
  /\ [][/\ hist'.op = "request" => min.nextra_atom' = min.nextra_atom + 1
        /\ min.nextra_atom' # min.nextra_atom =>
             \/ hist'.op = "request"
             \/ hist'.op = "init" /\ min.nextra_atom' = 0
        /\ hist'.op \notin {"request", "init"} =>
             /\ min.requestor' = min.requestor
             /\ min.extra_peratom' = min.extra_peratom
             /\ min.extra_max' = min.extra_max]_vars

\* two different records still in their slots after setup, evaluations on
\* a later step, run and cleanup
C7_Witness ==
  /\ hist.op = "cleanup"
  /\ update.ntimestep > 0
  /\ Len(hist.handles) = 2
  /\ hist.handles[1].pair # hist.handles[2].pair
  /\ min.requestor = <<hist.handles[1].pair, hist.handles[2].pair>>
  /\ min.extra_max = <<hist.handles[1].maxvalue, hist.handles[2].maxvalue>>

\* ----- the neighbor cadence

Cadence ==
  [every |-> neighbor.every, delay |-> neighbor.delay,
   dist_check |-> neighbor.dist_check]

MinCadence == [every |-> 1, delay |-> 0, dist_check |-> 1]

\* C10: init leaves the cadence (1, 0, 1); it is (1, 0, 1) after every
\* request, setup, setup_minimal, evaluation, iteration and run that follows,
\* up to cleanup; cleanup leaves the cadence that was in force when init was
\* called
C10_CadenceRestored ==
  /\ hist.op = "init" => Cadence = MinCadence
  /\ phase \in {"inited", "ready", "iterating", "stopped", "aborted"}
       => Cadence = MinCadence
  /\ hist.op = "cleanup" => Cadence = hist.pre

\* a cadence other than the minimizer's, back in force after a minimization
\* that evaluated forces on a later step
C10_Witness ==
  /\ hist.op = "cleanup"
  /\ update.ntimestep > 0
  /\ hist.pre = [every |-> 2, delay |-> 1, dist_check |-> 0]
  /\ Cadence = hist.pre
  /\ min.neigh_every = 2

\* ----- run, from the return of iterate

\* the energy of the present configuration: the scalar of thermo_pe, plus the
\* energy of the global extra DOFs if there are any, over the atom count if
\* thermo output is normalized
PotentialEnergy == env.pe - atom.x

Energy ==
  [num |-> PotentialEnergy
           + (IF min.nextra_global > 0 THEN env.eglobal ELSE 0),
   den |-> IF env.normflag THEN env.natoms ELSE 1]

\* C11: when iterate returned a code other than 0, run forces the thermo
\* schedule to the current step, then adds the current step to all computes,
\* then calls energy_force exactly once and stores its result in ecurrent,
\* and last asks output to write the current step; when iterate returned 0,
\* run makes no call at all and leaves the output schedules, the computes
\* and ecurrent as they were
C11_FinalOutput ==
  /\ []((hist.op = "run_finish" /\ hist.a # 0) =>
          /\ Times("output.next_thermo") = 1
          /\ Times("modify.addstep_compute_all") = 1
          /\ Times("energy_force") = 1
          /\ Times("output.write") = 1
          /\ Pos("iterate.return") = 1
          /\ Pos("output.next_thermo") = 2
          /\ Pos("modify.addstep_compute_all") = 3
          /\ Pos("energy_force") = 4
          /\ Pos("output.write") = Len(trace)
          /\ \A i \in {2, 3, Len(trace)} : trace[i].a = update.ntimestep
          /\ output.next_thermo = update.ntimestep
          /\ min.ecurrent = Energy)
  /\ []((hist.op = "run_finish" /\ hist.a = 0) =>
          trace = <<Ev("iterate.return", 0, 0)>>)
  /\ [][(hist'.op = "run_finish" /\ hist'.a = 0) =>
          /\ output' = output
          /\ modify' = modify
          /\ atom' = atom
          /\ min.ecurrent' = min.ecurrent]_vars

\* a run stopped by a true stopping condition on a later step, whose final
\* evaluation rebuilt the neighbor lists
C11_Witness ==
  /\ hist.op = "run_finish"
  /\ hist.a = 3
  /\ hist.b = 1
  /\ update.ntimestep > 0
  /\ Called("neighbor.build")
  /\ Called("output.write")
  /\ min.ecurrent # min.einitial

\* the reset flag that the last operation passed to energy_force
ResetFlag == trace[Pos("energy_force")].a

\* C12 as stated: the evaluation that run makes after a true stopping
\* condition is made with the reset flag set, and a rebuild during it resets
\* the reference positions of the fix
C12_FinalEvalResets ==
  (hist.op = "run_finish" /\ hist.a # 0) =>
    /\ ResetFlag # 0
    /\ hist.b # 0 => Called("fix_minimize.reset_coords")

\* C12, amended: the evaluation that run makes after a true stopping
\* condition is made with the reset flag 0; reset_coords is not called in it,
\* rebuild or not, and a rebuild refreshes the aliases alone (reset_vectors)
C12_FinalEvalNoReset ==
  (hist.op = "run_finish" /\ hist.a # 0) =>
    /\ ResetFlag = 0
    /\ ~Called("fix_minimize.reset_coords")
    /\ Times("reset_vectors") = IF hist.b # 0 THEN 1 ELSE 0

\* the final evaluation of a run rebuilt the neighbor lists in a changing
\* box and refreshed the aliases
C12_Witness ==
  /\ hist.op = "run_finish"
  /\ hist.a # 0
  /\ hist.b # 0
  /\ env.box_change
  /\ Called("comm.exchange")
  /\ Called("reset_vectors")

\* the last operation was a run that ended on a true stopping condition
Stopped == hist.op = "run_finish" /\ hist.a # 0

\* C13 as stated: when run stops on a true stopping condition, then in every
\* configuration of output the next step of every dump, of the restart
\* schedule (if restart files are written) and of thermo is the current
\* step when output is written
C13_AllSchedulesForced ==
  Stopped =>
    /\ \A i \in DOMAIN output.next_dump :
         output.next_dump[i] = update.ntimestep
    /\ output.next_dump_any = update.ntimestep
    /\ env.restart_every # 0 => output.next_restart = update.ntimestep
    /\ output.next_thermo = update.ntimestep

\* C13, amended: when run stops on a true stopping condition the next thermo
\* step is the current step in every configuration; the next step of every
\* dump is the current step if output is not restricted, and that of the
\* restart schedule if moreover restart files are written; the schedules not
\* forced are left as they were
C13_SchedulesForced ==
  /\ [](Stopped =>
          /\ output.next_thermo = update.ntimestep
          /\ env.restrict_output = 0 =>
               /\ \A i \in DOMAIN output.next_dump :
                    output.next_dump[i] = update.ntimestep
               /\ output.next_dump_any = update.ntimestep
          /\ (env.restrict_output = 0 /\ env.restart_every # 0) =>
               output.next_restart = update.ntimestep)
  /\ [][(hist'.op = "run_finish" /\ hist'.a # 0) =>
          /\ env.restrict_output # 0 =>
               /\ output'.next_dump = output.next_dump
               /\ output'.next_dump_any = output.next_dump_any
          /\ (env.restrict_output # 0 \/ env.restart_every = 0) =>
               output'.next_restart = output.next_restart]_vars

\* with restricted output and restart files, a run stopped on a later step
\* forced the thermo schedule alone
C13_Witness ==
  /\ Stopped
  /\ env.restrict_output = 1
  /\ env.restart_every = 1
  /\ update.ntimestep > 0
  /\ output.next_thermo = update.ntimestep
  /\ output.next_dump_any # update.ntimestep
  /\ output.next_restart # update.ntimestep

\* ----- the fix MINIMIZE

\* the number of fixes with the id MINIMIZE
NFixMinimize ==
  Cardinality({i \in DOMAIN modify.fix : modify.fix[i] = "MINIMIZE"})

\* C14: from init to cleanup there is exactly one fix MINIMIZE and
\* fix_minimize refers to it; before the first init and after every cleanup
\* there is none, the other fixes being as they were; only init and cleanup
\* change the list of fixes
C14_FixLifecycle ==
  /\ [](phase \in {"inited", "ready", "iterating", "stopped", "aborted"} =>
          /\ NFixMinimize = 1
          /\ min.fix_minimize \in DOMAIN modify.fix
          /\ modify.fix[min.fix_minimize] = "MINIMIZE")
  /\ [](phase = "idle" => NFixMinimize = 0 /\ modify.fix = <<"NVE">>)
  /\ [][modify.fix' # modify.fix => hist'.op \in {"init", "cleanup"}]_vars

\* the second of two consecutive minimizations is under way with one fix
C14_Witness ==
  /\ hist.runs = 2
  /\ phase = "iterating"
  /\ hist.op = "energy_force"
  /\ NFixMinimize = 1
  /\ Len(modify.fix) = 2

\* ----- repeated evaluation

\* C15: an energy_force(0) in which no rebuild was due, directly followed by
\* another energy_force(0) in which no rebuild was due, returns the same
\* energy the second time and leaves the force, torque and electron-force
\* buffers as the first call left them
C15_EvaluationRepeatable ==
  [][(/\ hist.op = "energy_force" /\ hist.a = 0 /\ hist.b = 0
      /\ hist'.op = "energy_force" /\ hist'.a = 0 /\ hist'.b = 0) =>
       /\ hist'.ret = hist.ret
       /\ atom'.f = atom.f
       /\ atom'.torque = atom.torque
       /\ atom'.erforce = atom.erforce]_vars

\* the second of two such evaluations has returned, on a later step and with
\* a global extra DOF, the owned atoms carrying the force of the pair style
C15_Witness ==
  /\ hist.op = "energy_force"
  /\ hist.again
  /\ update.ntimestep > 0
  /\ min.nextra_global > 0
  /\ hist.ret = Energy
  /\ atom.f[1] # Zero3

\* ----- the scheduler called again on the same step

\* the entries of the four consumer lists: one per consumer and flag it has
Listed ==
  {<<i, flag>> \in (DOMAIN hist.compute)
                   \X {"peflag", "peatomflag", "pressflag", "pressatomflag"} :
     hist.compute[i][flag]}

\* two operations in a row called ev_set for the same step
SameStepAgain ==
  /\ Called("ev_set")
  /\ Called("ev_set")'
  /\ EvStep' = EvStep

\* C16 as stated: whenever ev_set is called twice for the same step, also
\* when run has forced the current step and evaluates again, both calls
\* leave the same eflag and vflag
C16_SameStepSameFlags ==
  [][SameStepAgain => (min.eflag' = min.eflag /\ min.vflag' = min.vflag)]_vars

\* C16, amended: when ev_set is called twice for the same step and no
\* schedule was changed in between, both calls leave the same eflag and
\* vflag and the second leaves every consumer's schedule as the first left
\* it; when run has added the current step to all schedules in between, the
\* second call leaves modes that are not smaller; every call asks every
\* consumer of all four lists
C16_SchedulerIdempotent ==
  /\ [][(SameStepAgain /\ hist'.op # "run_finish") =>
          /\ min.eflag' = min.eflag
          /\ min.vflag' = min.vflag
          /\ modify.compute' = modify.compute]_vars
  /\ [][(SameStepAgain /\ hist'.op = "run_finish") =>
          /\ min.eflag' >= min.eflag
          /\ min.vflag' >= min.vflag]_vars
  /\ [](Called("ev_set") =>
          trace[Pos("ev_set")].b = Cardinality(Listed))

\* the second of two evaluations on the last step, both demanding per-atom
\* energy, with consumers that are scheduled on no step asked as well
C16_Witness ==
  /\ hist.again
  /\ EvStep = MaxStep
  /\ min.eflag = 3
  /\ min.vflag # 0
  /\ Cardinality(Listed) > 4
  /\ trace[Pos("ev_set")].b = Cardinality(Listed)

\* ----- setup without the potential-energy compute

NoThermoPe == find_compute(modify.compute, "thermo_pe") < 0

\* C17: a setup that finds no compute thermo_pe ends in the fatal error
\* about it, having called neither setup_style nor ev_set, force_clear or a
\* contributor nor a norm, and leaves ecurrent, einitial, fnorm2_init and
\* fnorminf_init as they were
C17_SetupNeedsThermoPe ==
  /\ []((hist.op = "setup" /\ NoThermoPe) =>
          /\ phase = "aborted"
          /\ hist.err = "Minimization could not find thermo_pe compute"
          /\ Pos("modify.find_compute") = Len(trace)
          /\ \A i \in DOMAIN trace :
               trace[i].op \notin ForceOps
                                  \cup {"setup_style", "fnorm_sqr", "fnorm_inf"})
  /\ [][(hist'.op = "setup" /\ NoThermoPe') =>
          /\ min.ecurrent' = min.ecurrent
          /\ min.einitial' = min.einitial
          /\ min.fnorm2_init' = min.fnorm2_init
          /\ min.fnorminf_init' = min.fnorminf_init
          /\ min.pe_compute' = min.pe_compute
          /\ atom' = atom]_vars

\* a setup aborted for the missing compute after the global extra DOF of a
\* fix was counted
C17_Witness ==
  /\ hist.op = "setup"
  /\ NoThermoPe
  /\ phase = "aborted"
  /\ min.nextra_global = 1
  /\ hist.err = "Minimization could not find thermo_pe compute"
  /\ Called("modify.min_dof")

\* ----- the clearing of the force buffers

\* the buffers as the force_clear of the last operation left them
Cleared == trace[Pos("force_clear")].a

Owned == 1..env.nlocal

Ghosts == (env.nlocal + 1)..(env.nlocal + env.nghost)

Contributors ==
  {"pair.compute", "bond.compute", "angle.compute", "dihedral.compute",
   "improper.compute", "kspace.compute"}

\* force_clear was called before every contributor, right after ev_set
ClearedFirst ==
  /\ Times("force_clear") = 1
  /\ Pos("force_clear") = Pos("ev_set") + 1
  /\ \A i \in DOMAIN trace :
       trace[i].op \in Contributors => Pos("force_clear") < i

C19_EnergyFormula ==
  /\ hist.op = "energy_force" => hist.ret = Energy
  /\ hist.op \in {"setup", "setup_minimal"} =>
       /\ min.ecurrent = Energy
       /\ min.einitial = Energy
  /\ hist.op \in {"energy_force", "setup", "setup_minimal"} =>
       /\ Times("pe_compute.compute_scalar") = 1
       /\ Times("modify.min_energy") = IF min.nextra_global > 0 THEN 1 ELSE 0
       /\ min.nextra_global > 0 =>
            Pos("pe_compute.compute_scalar") < Pos("modify.min_energy")

\* an evaluation with a global extra DOF and normalized thermo output, after
\* a setup_minimal that left the same kind of quotient
C19_Witness ==
  /\ hist.op = "energy_force"
  /\ min.nextra_global > 0
  /\ env.normflag
  /\ env.eglobal # 0
  /\ hist.ret = [num |-> PotentialEnergy + env.eglobal, den |-> env.natoms]
  /\ min.einitial.den = env.natoms

\* ----- the evaluation of the two setups

\* the operation was a setup that ran to its end
SetupDone ==
  \/ hist.op = "setup" /\ phase # "aborted"
  \/ hist.op = "setup_minimal"

FirstContributor ==
  CHOOSE i \in DOMAIN trace :
    /\ trace[i].op \in Contributors
    /\ \A j \in 1..(i - 1) : trace[j].op \notin Contributors

LastContributor ==
  CHOOSE i \in DOMAIN trace :
    /\ trace[i].op \in Contributors
    /\ \A j \in (i + 1)..Len(trace) : trace[j].op \notin Contributors

\* atoms exchanged, ghosts acquired and the lists built, in this order, once
\* each and before the first contributor
Rebuilt ==
  /\ Times("comm.exchange") = 1
  /\ Times("comm.borders") = 1
  /\ Times("neighbor.build") = 1
  /\ Pos("comm.exchange") < Pos("comm.borders")
  /\ Pos("comm.borders") < Pos("neighbor.build")
  /\ Pos("neighbor.build") < Pos("force_clear")
  /\ Pos("force_clear") < FirstContributor

\* one evaluation, and the energy and the two norms taken after its last
\* contributor and kept as the initial values
SnapshotsAfter ==
  /\ Times("ev_set") = 1
  /\ Times("force_clear") = 1
  /\ Times("pair.compute") = 1
  /\ Times("pe_compute.compute_scalar") = 1
  /\ Times("fnorm_sqr") = 1
  /\ Times("fnorm_inf") = 1
  /\ LastContributor < Pos("pe_compute.compute_scalar")
  /\ Pos("pe_compute.compute_scalar") < Pos("fnorm_sqr")
  /\ Pos("fnorm_sqr") < Pos("fnorm_inf")
  /\ min.einitial = min.ecurrent
  /\ min.einitial = Energy

\* C20 as stated: setup, and setup_minimal for every value of its flag,
\* exchange the atoms, acquire the ghosts and build the neighbor lists before
\* the contributors are called, and take the initial energy and norms after
\* the evaluation
C20_BothSetupsRebuild == SetupDone => Rebuilt /\ SnapshotsAfter

\* C20, amended: setup, and setup_minimal with a flag other than 0, exchange
\* the atoms, acquire the ghosts and build the neighbor lists before the
\* contributors are called; setup_minimal(0) evaluates the forces on the
\* lists as they are, with none of the calls of a migration; all of them
\* take the initial energy and norms after the evaluation
C20_RebuildUnlessFlagZero ==
  SetupDone =>
    /\ SnapshotsAfter
    /\ IF hist.op = "setup_minimal" /\ hist.a = 0
         THEN \A i \in DOMAIN trace : trace[i].op \notin MigrationOps
         ELSE Rebuilt

\* a setup_minimal(0) that evaluated the forces and took the snapshots
\* without a rebuild
C20_Witness ==
  /\ hist.op = "setup_minimal"
  /\ hist.a = 0
  /\ ~Called("neighbor.build")
  /\ Called("pair.compute")
  /\ Pos("pair.compute") < Pos("fnorm_inf")
  /\ min.einitial = Energy

\* ----- the order of an evaluation

\* the calls of energy_force from the scheduler to the energy
Evaluation == OpsOf(Pos("ev_set"), Pos("pe_compute.compute_scalar"))

\* the harvest calls of the last operation, in the order they were made
Harvests == SelectSeq(trace, LAMBDA e : e.op = "min_xf_get")

\* the order the settings prescribe for the calls from the scheduler to the
\* energy
EvaluationOrder ==
  <<"ev_set", "force_clear">>
  \o Opt(env.n_min_pre_force > 0, "modify.min_pre_force")
  \o Opt(env.pair, "pair.compute")
  \o Opt(env.molecular /\ env.bond, "bond.compute")
  \o Opt(env.molecular /\ env.angle, "angle.compute")
  \o Opt(env.molecular /\ env.dihedral, "dihedral.compute")
  \o Opt(env.molecular /\ env.improper, "improper.compute")
  \o Opt(env.kspace, "kspace.compute")
  \o Opt(env.newton, "comm.reverse_comm")
  \o [m \in 1..min.nextra_atom |-> "min_xf_get"]
  \o Opt(env.n_min_post_force > 0, "modify.min_post_force")
  \o <<"pe_compute.compute_scalar">>

\* C21: in every call of energy_force the calls from the scheduler to the
\* energy are, in this order and with no other call between them: ev_set,
\* force_clear, the pre-force hooks, pair, the four bonded styles if the
\* system is molecular, kspace (each only if the force field has it), the
\* reverse reduction if the Newton flag is set, one harvest per registered
\* per-atom extra DOF in ascending handle order, each with its own handle and
\* made on its requestor, the post-force hooks, the energy
C21_EvaluationOrder ==
  InEF =>
    /\ EFTimes("ev_set") = 1
    /\ EFTimes("pe_compute.compute_scalar") = 1
    /\ Pos("neighbor.decide") < Pos("ev_set")
    /\ Evaluation = EvaluationOrder
    /\ Len(Harvests) = min.nextra_atom
    /\ \A m \in 1..min.nextra_atom :
         /\ Harvests[m].a = m - 1
         /\ Harvests[m].b = min.requestor[m]

\* an evaluation of a molecular system with two bonded styles, a long-range
\* solver, Newton's third law and two per-atom extra DOFs harvested
C21_Witness ==
  /\ hist.op = "energy_force"
  /\ env.molecular /\ env.bond /\ ~env.angle /\ env.dihedral
  /\ env.kspace
  /\ env.newton
  /\ min.nextra_atom = 2
  /\ Pos("dihedral.compute") < Pos("kspace.compute")
  /\ Pos("kspace.compute") < Pos("comm.reverse_comm")
  /\ Len(Harvests) = 2
  /\ Harvests[2].a = 1

\* ----- the collectives of a group of processes

\* the collectives process q has completed, in the order it entered them
Issued(q) ==
  Names(SelectSeq(SubSeq(nrm.prog[q], 1, nrm.pc[q]),
                  LAMBDA e : e.op \in Collectives))

\* the collectives the rebuild decision and the replicated settings prescribe
CollectiveOrder ==
  (IF nrm.nflag = 0 THEN <<"comm.forward_comm">>
                    ELSE <<"comm.exchange", "comm.borders">>)
  \o Opt(env.newton, "comm.reverse_comm")
  \o <<"MPI_Allreduce.MPI_SUM", "MPI_Allreduce.MPI_MAX">>

\* every process has completed a prefix of the prescribed collectives, the
\* same one as every other process, and a process that waits does so in the
\* collective that comes next
InStep ==
  \A q \in Procs :
    /\ Len(Issued(q)) <= Len(CollectiveOrder)
    /\ Issued(q) = SubSeq(CollectiveOrder, 1, Len(Issued(q)))
    /\ Issued(q) = Issued(1)
    /\ Blocked(q) =>
         /\ Len(Issued(q)) < Len(CollectiveOrder)
         /\ Op(q, nrm.pc[q] + 1) = CollectiveOrder[Len(Issued(q)) + 1]

AllReturned == \A q \in Procs : Done(q) /\ Issued(q) = CollectiveOrder

\* C22: with the rebuild decision and the replicated settings the same on
\* every process, the processes running energy_force, fnorm_sqr and
\* fnorm_inf enter the same collectives in the same order, whatever atoms
\* each owns (none included) and however long its extra-DOF buffers are,
\* and once all are started every process returns: none waits forever in a
\* collective
C22_SameCollectives ==
  /\ []InStep
  /\ (phase = "group") ~> AllReturned

\* a group of at least two processes, one owning no atom and one owning
\* some, that rebuilt, reduced the ghost forces and returned from both norms
C22_Witness ==
  /\ phase = "group"
  /\ nrm.nprocs >= 2
  /\ nrm.nflag = 1
  /\ env.newton
  /\ nrm.nextra_atom = 1
  /\ \E q \in Procs : world_procs[q].nvec = 0
  /\ \E q \in Procs : world_procs[q].nvec > 0
  /\ \A q \in Procs : Done(q)
  /\ Issued(1) = <<"comm.exchange", "comm.borders", "comm.reverse_comm",
                   "MPI_Allreduce.MPI_SUM", "MPI_Allreduce.MPI_MAX">>

====
